---- MODULE Spec2Model ----
(***************************************************************************)
(* Model of the Quran recitation analysis pipeline:                        *)
(*   - QuranForcedAligner (src/alignment/forced_alignment.py):             *)
(*     load_uthmani_text, align_audio_to_text, detect_tajwid_boundaries    *)
(*     and the five rule detectors, driven as analyze_quran_recitation     *)
(*     drives them (align, then one detection pass over the alignment);    *)
(*   - the scoring block of analyze_audio (src/main.py, lines 143-178);    *)
(*   - the request handler analyze_audio as it runs, two requests in       *)
(*     flight (src/main.py);                                               *)
(*   - generate_feedback (src/main.py);                                    *)
(*   - TajweedAcoustics.analyze_segment and                                *)
(*     QuranInferenceEngine.analyze_recitation (src/core_engine);          *)
(*   - AudioCleaner.detect_silence_intervals and                           *)
(*     AudioNormalizer.convert_to_mono (src/preprocessing).                *)
(* Each part has its own specification; the variables of the other parts   *)
(* stay at their idle values.                                              *)
(*                                                                         *)
(* Numbers.  Python floats are modelled as exact rationals.  Times of one  *)
(* alignment share the denominator den = sr * max(total_phonemes, 1), so a *)
(* time is stored as its numerator.  Scores are fractions over the         *)
(* reference word count.  Letters are named by their transliteration.      *)
(***************************************************************************)
EXTENDS Integers, Sequences, FiniteSets, TLC

VARIABLES
    text,        \* uthmani_text: the reference, a sequence of characters
    samples,     \* len(y): number of samples of the loaded waveform
    pc,          \* position of analyze_quran_recitation
    alignment,   \* the list returned by align_audio_to_text
    den,         \* common denominator of the times of this alignment
    idx,         \* loop index i of detect_tajwid_boundaries (1-based)
    boundaries,  \* the list detect_tajwid_boundaries is building
    measured,    \* what the spectrum of each visited segment showed
    error,       \* exception that ended the call, "none" if none
    spc,         \* position inside the scoring block of analyze_audio
    ref_words,   \* number of words of normalized_reference
    edits,       \* [subs, dels, ins]: the word edits jiwer finds
    wer,         \* numerator of wer (denominator ref_words)
    level,       \* level derived from qwer
    result,      \* analysis_result
    word_letters, \* letters of each word of reference and hypothesis
    hpc,         \* position of analyze_audio, for each request
    req,         \* the upload of each request: content type, file name, bytes
    tmp_files,   \* temporary files that exist on disk, and what they hold
    resp,        \* HTTP response to each request
    fpc,         \* position of generate_feedback
    shares,      \* analysis_result.error_breakdown given to generate_feedback
    feedback,    \* the feedback dict generate_feedback builds
    gpc,         \* position of the segment analysis
    seg,         \* analyze_segment's arguments, the file's length, len(y)
    features,    \* what analyze_segment returned
    outcome,     \* what the caller of analyze_segment makes of it
    dpc,         \* position of detect_silence_intervals
    silence_frames,     \* rms_energy < threshold, frame by frame
    min_silence_frames, \* int(min_silence_duration * self.sample_rate)
    frame_i,     \* the frames the loop has visited
    current_start,      \* first frame of the open silent run, -1 for None
    silence_intervals,  \* the list detect_silence_intervals is building
    mpc,         \* position of normalize_quran_audio
    sound_file,  \* the channels of the audio file, each a list of samples
    audio,       \* the array librosa.load returned
    mono         \* what convert_to_mono returned

vars == <<text, samples, pc, alignment, den, idx, boundaries, measured, error,
          spc, ref_words, edits, wer, level, result, word_letters,
          hpc, req, tmp_files, resp, fpc, shares, feedback,
          gpc, seg, features, outcome,
          dpc, silence_frames, min_silence_frames, frame_i, current_start,
          silence_intervals, mpc, sound_file, audio, mono>>

alignVars == <<text, samples, pc, alignment, den, idx, boundaries, measured, error>>
scoreVars == <<spc, ref_words, edits, wer, level, result, word_letters>>
handlerVars == <<hpc, req, tmp_files, resp>>
feedbackVars == <<fpc, shares, feedback>>
segmentVars == <<gpc, seg, features, outcome>>
silenceVars == <<dpc, silence_frames, min_silence_frames, frame_i, current_start,
                 silence_intervals>>
monoVars == <<mpc, sound_file, audio, mono>>

-----------------------------------------------------------------------------
(* Bounds of the model *)

MaxTextLen == 3
MaxSamples == 4
SampleRate == 1

(* Characters the reference text is drawn from: four letters, one          *)
(* diacritic and the blank (any character outside the Arabic ranges).      *)
Alphabet == {"noon", "ya", "ba", "dal", "fatha", " "}

RECURSIVE SeqsUpTo(_, _)
SeqsUpTo(S, n) ==
    IF n = 0 THEN {<<>>}
    ELSE LET shorter == SeqsUpTo(S, n - 1)
         IN  shorter \cup {Append(s, c) : s \in {t \in shorter : Len(t) = n - 1}, c \in S}

Texts == SeqsUpTo(Alphabet, MaxTextLen)

Min(a, b) == IF a < b THEN a ELSE b
Max(a, b) == IF a > b THEN a ELSE b

-----------------------------------------------------------------------------
(* Phoneme inventory: the letter sets of the rule detectors *)

Diacritics == {"fathatan", "dammatan", "kasratan", "fatha", "damma", "kasra",
               "shadda", "sukun", "superscript_alif"}

madd_letters == {"alif", "waw", "ya"}

ikhfa_letters == {"ta", "tha", "jim", "dal", "dhal", "zay", "sin", "shin",
                  "sad", "dad", "tah", "zah", "fa", "qaf", "kaf"}

idgham_pairs == {<<"noon", "ya">>, <<"noon", "waw">>, <<"noon", "mim">>,
                 <<"lam", "lam">>, <<"ra", "ra">>}

qalqalah_letters == {"ba", "jim", "dal", "tah", "qaf"}

ArabicLetters == {"alif", "ba", "ta", "tha", "jim", "dal", "dhal", "ra", "zay",
                  "sin", "shin", "sad", "dad", "tah", "zah", "fa", "qaf", "kaf",
                  "lam", "mim", "noon", "waw", "ya"}

GhunnahThresholdPct == 15

-----------------------------------------------------------------------------
(* load_uthmani_text *)

\* re.sub(r'[U+064B-U+065F U+0670 U+06D6-U+06ED]', '', text)
RemoveDiacritics(t) == SelectSeq(t, LAMBDA c : c \notin Diacritics)

\* a character of the class [U+0621-U+064A U+0671-U+06B7 U+06BA-U+06FF]
IsWordChar(c) == c \in ArabicLetters

\* re.findall(r'[...]+', clean_text): the maximal runs of word characters
RECURSIVE FindWords(_, _, _)
FindWords(t, cur, acc) ==
    IF t = <<>> THEN (IF cur = <<>> THEN acc ELSE Append(acc, cur))
    ELSE IF IsWordChar(Head(t)) THEN FindWords(Tail(t), Append(cur, Head(t)), acc)
    ELSE FindWords(Tail(t), <<>>, IF cur = <<>> THEN acc ELSE Append(acc, cur))

load_uthmani_text(t) == FindWords(RemoveDiacritics(t), <<>>, <<>>)

\* the characters visited by "for word in words: for char in word"
RECURSIVE CharsOf(_)
CharsOf(words) ==
    IF words = <<>> THEN <<>> ELSE Head(words) \o CharsOf(Tail(words))

\* total_phonemes = sum(len(word) for word in words)
RECURSIVE TotalPhonemes(_)
TotalPhonemes(words) ==
    IF words = <<>> THEN 0 ELSE Len(Head(words)) + TotalPhonemes(Tail(words))

-----------------------------------------------------------------------------
(* align_audio_to_text *)

\* (variant: the divisor guarded by adding one instead of max)
DenominatorPlusOne(words) == SampleRate * (TotalPhonemes(words) + 1)

\* avg_phoneme_duration = (len(y) / sr) / max(total_phonemes, 1), as the
\* numerator over Denominator(words)
Denominator(words) == SampleRate * Max(TotalPhonemes(words), 1)

\* (variant: end_time computed from the time after the increment)
PhonemeAlignmentLateEnd(char, k, n) ==
    [phoneme     |-> char,
     start_time  |-> (k - 1) * n,
     end_time    |-> k * n + n,
     confidence  |-> 85,
     tajwid_rule |-> "normal",
     harakat     |-> "none",
     duration    |-> n]

\* the PhonemeAlignment appended for the k-th character; current_time is
\* (k - 1) * duration because it grows by duration after every append
PhonemeAlignment(char, k, n) ==
    [phoneme     |-> char,
     start_time  |-> (k - 1) * n,
     end_time    |-> (k - 1) * n + n,
     confidence  |-> 85,
     tajwid_rule |-> "normal",
     harakat     |-> "none",
     duration    |-> n]

Alignments(words, n) ==
    LET chars == CharsOf(words)
    IN  [k \in 1..Len(chars) |-> PhonemeAlignment(chars[k], k, n)]

-----------------------------------------------------------------------------
(* detect_tajwid_boundaries and the rule detectors *)

\* What np.fft.fft shows for a non-empty segment: whether it has any energy
\* (an all-zero segment has total_energy = 0) and 100 * nasal / total.
Spectra ==
    {[silent |-> TRUE, nasal_pct |-> 0]}
    \cup {[silent |-> FALSE, nasal_pct |-> p] :
              p \in {GhunnahThresholdPct, GhunnahThresholdPct + 1}}

\* int(t * sr) for a time with numerator t (the exact quotient; a float
\* product may land one sample lower when it rounds below an integer)
SampleIndex(t, d) == (t * SampleRate) \div d

\* len(y[int(start_time * sr):int(end_time * sr)])
SegmentLen(al, d, n) ==
    LET lo == Min(SampleIndex(al.start_time, d), n)
        hi == Min(SampleIndex(al.end_time, d), n)
    IN  Max(hi - lo, 0)

\* (nasal_energy / total_energy) > 0.15; 0/0 is nan and nan > 0.15 is False
detect_ghunnah(m) == ~m.silent /\ m.nasal_pct > GhunnahThresholdPct

\* phoneme in madd_letters and duration > 1.5
detect_madd(phoneme, duration, d) ==
    phoneme \in madd_letters /\ 2 * duration > 3 * d

\* (variant: dal left out of the ikhfa letters)
detect_ikhfa_without_dal(phoneme) == phoneme \in ikhfa_letters \ {"dal"}

detect_ikhfa(phoneme) == phoneme \in ikhfa_letters

\* (variant: the pair of the previous and the current phoneme)
detect_idgham_backward(als, index) ==
    IF index > 1
    THEN <<als[index - 1].phoneme, als[index].phoneme>> \in idgham_pairs
    ELSE FALSE

detect_idgham(als, index) ==
    IF index < Len(als)
    THEN <<als[index].phoneme, als[index + 1].phoneme>> \in idgham_pairs
    ELSE FALSE

detect_qalqalah(phoneme) == phoneme \in qalqalah_letters

\* np.std of the pre-emphasised envelope: 0 for an all-zero segment
calculate_qalqalah_intensity(m) == IF m.silent THEN 0 ELSE 1

\* (variant: the qalqalah branch placed before the ikhfa branch)
RuleChainQalqalahEarly(als, i, d, m) ==
    IF detect_ghunnah(m) THEN "ghunnah"
    ELSE IF detect_madd(als[i].phoneme, als[i].duration, d) THEN "madd"
    ELSE IF detect_qalqalah(als[i].phoneme) THEN "qalqalah"
    ELSE IF detect_ikhfa(als[i].phoneme) THEN "ikhfa"
    ELSE IF detect_idgham(als, i) THEN "idgham"
    ELSE "normal"

\* the branch of the if/elif chain taken for entry i
RuleChain(als, i, d, m) ==
    IF detect_ghunnah(m) THEN "ghunnah"
    ELSE IF detect_madd(als[i].phoneme, als[i].duration, d) THEN "madd"
    ELSE IF detect_ikhfa(als[i].phoneme) THEN "ikhfa"
    ELSE IF detect_idgham(als, i) THEN "idgham"
    ELSE IF detect_qalqalah(als[i].phoneme) THEN "qalqalah"
    ELSE "normal"

\* (variant: the rule found written back into the entry)
AlignmentTagged(als, i, rule) == [als EXCEPT ![i].tajwid_rule = rule]

\* the alignment list after the loop body ran for entry i: the body reads
\* phoneme_align and alignment and assigns to neither
AlignmentAfterEntry(als, i, rule) == als

\* (variant: a boundary that lasts to the end of the next entry)
TajwidBoundaryToNext(al, i, rule, m) ==
    [start_time |-> al.start_time,
     end_time   |-> al.end_time + al.duration,
     rule       |-> rule,
     confidence |-> CASE rule = "madd"     -> 85
                      [] rule = "ikhfa"    -> 80
                      [] rule = "idgham"   -> 88
                      [] rule = "qalqalah" -> 75
                      [] OTHER             -> 90,
     param      |-> CASE rule = "madd"     -> "actual_duration"
                      [] rule = "qalqalah" -> "intensity"
                      [] rule = "ghunnah"  -> "nasal_energy"
                      [] OTHER             -> "none",
     value      |-> CASE rule = "madd"     -> al.duration
                      [] rule = "qalqalah" -> calculate_qalqalah_intensity(m)
                      [] rule = "ghunnah"  -> m.nasal_pct
                      [] OTHER             -> 0,
     src        |-> i]

\* the TajwidBoundary appended by a branch; src (the index of the entry it
\* was made from) is not a field of the program's record, it is kept so that
\* properties can name the source entry
TajwidBoundary(al, i, rule, m) ==
    [start_time |-> al.start_time,
     end_time   |-> al.end_time,
     rule       |-> rule,
     confidence |-> CASE rule = "madd"     -> 85
                      [] rule = "ikhfa"    -> 80
                      [] rule = "idgham"   -> 88
                      [] rule = "qalqalah" -> 75
                      [] OTHER             -> 90,
     param      |-> CASE rule = "madd"     -> "actual_duration"
                      [] rule = "qalqalah" -> "intensity"
                      [] rule = "ghunnah"  -> "nasal_energy"
                      [] OTHER             -> "none",
     value      |-> CASE rule = "madd"     -> al.duration
                      [] rule = "qalqalah" -> calculate_qalqalah_intensity(m)
                      [] rule = "ghunnah"  -> m.nasal_pct
                      [] OTHER             -> 0,
     src        |-> i]

-----------------------------------------------------------------------------
(* analyze_quran_recitation: align, then detect *)

ScoreIdle ==
    /\ spc = "idle"
    /\ ref_words = 1
    /\ edits = [subs |-> 0, dels |-> 0, ins |-> 0, extra |-> 0]
    /\ wer = 0
    /\ level = "none"
    /\ result = [qwer |-> 0]
    /\ word_letters = 1

HandlerIdle ==
    /\ hpc = <<>>
    /\ req = <<>>
    /\ tmp_files = {}
    /\ resp = <<>>

FeedbackIdle ==
    /\ fpc = "idle"
    /\ shares = <<>>
    /\ feedback = [improvements |-> <<>>]

SegmentIdle ==
    /\ gpc = "idle"
    /\ seg = [start_time |-> 0]
    /\ features = <<>>
    /\ outcome = [status |-> "none"]

SilenceIdle ==
    /\ dpc = "idle"
    /\ silence_frames = <<>>
    /\ min_silence_frames = 0
    /\ frame_i = 0
    /\ current_start = -1
    /\ silence_intervals = <<>>

MonoIdle ==
    /\ mpc = "idle"
    /\ sound_file = <<>>
    /\ audio = [ndim |-> 1, data |-> <<>>]
    /\ mono = [ndim |-> 1, data |-> <<>>, over |-> 1]

InitAlign ==
    /\ text \in Texts
    /\ samples \in 0..MaxSamples
    /\ pc = "start"
    /\ alignment = <<>>
    /\ den = 1
    /\ idx = 1
    /\ boundaries = <<>>
    /\ measured = <<>>
    /\ error = "none"
    /\ ScoreIdle
    /\ HandlerIdle
    /\ FeedbackIdle
    /\ SegmentIdle
    /\ SilenceIdle
    /\ MonoIdle

\* align_audio_to_text.  extract_phoneme_features runs before the timing
\* loop; on a waveform with samples it returns, on an empty waveform the
\* library either returns (zero-padded frames) or raises ValueError.
AlignAudioToText ==
    /\ pc = "start"
    /\ LET words == load_uthmani_text(text)
       IN  \/ /\ alignment' = Alignments(words, samples)
              /\ den' = Denominator(words)
              /\ pc' = "detect"
              /\ error' = "none"
           \/ /\ samples = 0
              /\ alignment' = <<>>
              /\ den' = den
              /\ pc' = "align_failed"
              /\ error' = "ValueError"
    /\ UNCHANGED <<text, samples, idx, boundaries, measured>>
    /\ UNCHANGED <<scoreVars, handlerVars, feedbackVars, segmentVars, silenceVars, monoVars>>

\* one iteration of the loop of detect_tajwid_boundaries
DetectEntry ==
    /\ pc = "detect"
    /\ idx <= Len(alignment)
    /\ LET al == alignment[idx]
       IN  \/ \* np.fft.fft of an empty segment raises
              /\ SegmentLen(al, den, samples) = 0
              /\ error' = "ValueError"
              /\ pc' = "detect_failed"
              /\ UNCHANGED <<idx, boundaries, measured, alignment>>
           \/ /\ SegmentLen(al, den, samples) > 0
              /\ \E m \in Spectra :
                    LET rule == RuleChain(alignment, idx, den, m)
                    IN  /\ measured' = Append(measured, m)
                        /\ IF rule = "ghunnah"
                           THEN \* _calculate_nasal_energy reads the name sr,
                                \* which is neither a parameter nor a global
                                /\ error' = "NameError"
                                /\ pc' = "detect_failed"
                                /\ UNCHANGED <<idx, boundaries>>
                           ELSE /\ boundaries' =
                                      IF rule = "normal" THEN boundaries
                                      ELSE Append(boundaries,
                                                  TajwidBoundary(al, idx, rule, m))
                                /\ idx' = idx + 1
                                /\ UNCHANGED <<pc, error>>
                        /\ alignment' = AlignmentAfterEntry(alignment, idx, rule)
    /\ UNCHANGED <<text, samples, den>>
    /\ UNCHANGED <<scoreVars, handlerVars, feedbackVars, segmentVars, silenceVars, monoVars>>

\* return boundaries
DetectReturn ==
    /\ pc = "detect"
    /\ idx > Len(alignment)
    /\ pc' = "detected"
    /\ UNCHANGED <<text, samples, alignment, den, idx, boundaries, measured, error>>
    /\ UNCHANGED <<scoreVars, handlerVars, feedbackVars, segmentVars, silenceVars, monoVars>>

NextAlign == AlignAudioToText \/ DetectEntry \/ DetectReturn

SpecAlign == InitAlign /\ [][NextAlign]_vars

-----------------------------------------------------------------------------
(* The scoring block of analyze_audio (src/main.py, lines 143-178) *)

MaxRefWords == 3
FallbackRefWords == 8
LongRefWords == 2001
MaxSubs == 200
MaxDels == 1
MaxIns == 2
MaxExtraChars == 1
MaxWordLetters == 2

\* word counts of the reference: short texts, the built-in fallback verse
\* and a long dataset file
RefWordCounts == (1..MaxRefWords) \cup {FallbackRefWords, LongRefWords}

\* The edits between reference and hypothesis: subs reference words replaced
\* by a word the reference does not have, dels reference words left out, ins
\* foreign words added (never both dels and ins, so that the edit distance is
\* subs + dels + ins), extra characters of the transcription beyond the
\* letters of its words and the blanks between words.
EditsOf(n) ==
    {[subs |-> s, dels |-> d, ins |-> i, extra |-> x] :
        s \in 0..Min(n, MaxSubs), d \in 0..MaxDels, i \in 0..MaxIns,
        x \in 0..MaxExtraChars}

FeasibleEdits(n) ==
    {e \in EditsOf(n) : e.subs + e.dels <= n /\ (e.dels = 0 \/ e.ins = 0)}

\* jiwer.wer(reference, hypothesis) = (S + D + I) / (H + S + D), as the
\* numerator over the reference word count H + S + D
jiwer_wer(e) == e.subs + e.dels + e.ins

\* (variant: the percentage factor mistyped)
QwerTenfold(w) == w * 10

\* qwer = wer * 100, numerator over the reference word count
Qwer(w) == w * 100

\* the if/elif/else on qwer
LevelOf(q, n) ==
    IF q < 10 * n THEN "Advanced"
    ELSE IF q < 25 * n THEN "Intermediate"
    ELSE "Beginner"

\* round(a / b, 0) as Python rounds: to nearest, ties to even
RoundHalfEven(a, b) ==
    LET fl == a \div b
        rem == a % b
    IN  IF 2 * rem < b THEN fl
        ELSE IF 2 * rem > b THEN fl + 1
        ELSE IF fl % 2 = 0 THEN fl ELSE fl + 1

\* round(qwer, 2), in hundredths
Round2(q, n) == RoundHalfEven(100 * q, n)

\* error_breakdown: qwer * 0.3, * 0.4, * 0.2, * 0.1, each as the numerator
\* over 10 * (reference word count)
ErrorBreakdown(q) ==
    [makhraj |-> q * 3, tajwid |-> q * 4, harakat |-> q * 2, rhythm |-> q * 1]

\* len(transcription): the characters of the hypothesis, its words of
\* letters letters each, the blanks between them and the extra characters
TranscriptionLen(e, n, letters) ==
    LET words == n - e.dels + e.ins
    IN  words * letters + Max(words - 1, 0) + e.extra

\* analysis_result; reference_text.split() has as many words as the
\* normalized reference
AnalysisResult(q, n, lv, e, letters) ==
    [qwer                 |-> Round2(q, n),
     level                |-> lv,
     error_breakdown      |-> ErrorBreakdown(q),
     total_errors         |-> (q * n) \div (100 * n),
     total_phonemes       |-> TranscriptionLen(e, n, letters),
     dominant_error_types |-> <<"tajwid", "makhraj">>,
     detailed_errors      |-> <<"transcription", "reference",
                                "raw_transcription", "raw_reference">>]

AlignIdle ==
    /\ text = <<>>
    /\ samples = 0
    /\ pc = "idle"
    /\ alignment = <<>>
    /\ den = 1
    /\ idx = 1
    /\ boundaries = <<>>
    /\ measured = <<>>
    /\ error = "none"

InitScore ==
    /\ spc = "wer"
    /\ ref_words \in RefWordCounts
    /\ edits \in FeasibleEdits(ref_words)
    /\ wer = 0
    /\ level = "none"
    /\ result = [qwer |-> 0]
    /\ word_letters \in 1..MaxWordLetters
    /\ AlignIdle
    /\ HandlerIdle
    /\ FeedbackIdle
    /\ SegmentIdle
    /\ SilenceIdle
    /\ MonoIdle

\* wer = jiwer.wer(normalized_reference, normalized_transcription)
ComputeWer ==
    /\ spc = "wer"
    /\ wer' = jiwer_wer(edits)
    /\ spc' = "level"
    /\ UNCHANGED <<ref_words, edits, level, result, word_letters>>
    /\ UNCHANGED <<alignVars, handlerVars, feedbackVars, segmentVars, silenceVars, monoVars>>

\* qwer = wer * 100 and the level thresholds
DetermineLevel ==
    /\ spc = "level"
    /\ level' = LevelOf(Qwer(wer), ref_words)
    /\ spc' = "result"
    /\ UNCHANGED <<ref_words, edits, wer, result, word_letters>>
    /\ UNCHANGED <<alignVars, handlerVars, feedbackVars, segmentVars, silenceVars, monoVars>>

\* error_breakdown and analysis_result
BuildResult ==
    /\ spc = "result"
    /\ result' = AnalysisResult(Qwer(wer), ref_words, level, edits, word_letters)
    /\ spc' = "done"
    /\ UNCHANGED <<ref_words, edits, wer, level, word_letters>>
    /\ UNCHANGED <<alignVars, handlerVars, feedbackVars, segmentVars, silenceVars, monoVars>>

NextScore == ComputeWer \/ DetermineLevel \/ BuildResult

SpecScore == InitScore /\ [][NextScore]_vars

\* ---------------------------------------------------------------------------
\* The request handler analyze_audio (src/main.py)
\* ---------------------------------------------------------------------------

\* file.content_type of an upload; "none" is a part without a content type
ContentTypes == {"none", "", "audio/wav", "audio/mpeg", "text/plain"}

\* file.filename of an upload; "none" is a part without a file name
FileNames == {"none", "recitation.wav", "recitation"}

\* what the uploaded bytes hold: samples of audio, a sound file without a
\* frame, or nothing a decoder understands
Payloads == {"audio", "no_frames", "garbage"}

Requests ==
    [content_type : ContentTypes, filename : FileNames, payload : Payloads,
     read_fails : BOOLEAN]

\* not file.content_type or not file.content_type.startswith('audio/')
NotAudio(ct) == ct \in {"none", ""} \/ ct \notin {"audio/wav", "audio/mpeg"}

\* the outer handler: every exception becomes an HTTP 500 whose detail quotes it
ErrorResponse(e) == [status |-> 500, detail |-> <<"Error processing audio", e>>]

\* the requests in flight; each runs analyze_audio with its own locals
RequestIds == {"r1", "r2"}

\* (variant: one fixed name for the upload copy of every request)
TempNameFixed(r) == <<"tmp", "upload">>

\* temp_file.name: NamedTemporaryFile gives every call a name no other file has
TempName(r) == <<r, "upload">>

\* the names of the files on disk
Names(files) == {f.name : f \in files}

\* the files after a file was created or written under name
Written(files, name, content) ==
    {f \in files : f.name # name} \cup {[name |-> name, holds |-> content]}

\* the finally block: os.unlink(temp_filename) if it exists; processed_temp_file
\* is not in locals() on any path the handler takes
Unlinked(files, name) == {f \in files : f.name # name}

\* One call of analyze_audio is s = [hpc, req, name, resp, files]: its
\* position, its upload, the name of its upload copy, its response and the
\* files on disk.  Each step below is one stretch of the handler.

\* the content-type check; its HTTPException is raised inside the outer try
Validated(s) ==
    IF NotAudio(s.req.content_type)
    THEN [s EXCEPT !.resp = ErrorResponse("400: File must be an audio file"),
                   !.hpc = "done"]
    ELSE [s EXCEPT !.hpc = "create_temp"]

\* NamedTemporaryFile(delete=False, suffix=splitext(file.filename)[1])
TempCreated(s) ==
    IF s.req.filename = "none"
    THEN [s EXCEPT !.resp = ErrorResponse("TypeError"), !.hpc = "done"]
    ELSE [s EXCEPT !.files = Written(@, s.name, "empty"), !.hpc = "save"]

\* contents = await file.read(); temp_file.write(contents): a failure leaves
\* the with block before the inner try and its finally are entered
Saved(s) ==
    IF s.req.read_fails
    THEN [s EXCEPT !.resp = ErrorResponse("OSError"), !.hpc = "done"]
    ELSE [s EXCEPT !.files = Written(@, s.name, s.req.payload), !.hpc = "load"]

\* what the file called name holds, "missing" if there is no such file
Holds(files, name) ==
    IF name \in Names(files)
    THEN (CHOOSE f \in files : f.name = name).holds
    ELSE "missing"

\* librosa.load(temp_filename, sr=22050) inside the inner try
Loaded(s) ==
    LET content == Holds(s.files, s.name)
    IN  IF content = "missing"
        THEN [s EXCEPT !.resp = ErrorResponse("FileNotFoundError"),
                       !.files = Unlinked(@, s.name), !.hpc = "done"]
        ELSE IF content \in {"garbage", "empty"}
        THEN [s EXCEPT !.resp = ErrorResponse("NoBackendError"),
                       !.files = Unlinked(@, s.name), !.hpc = "done"]
        ELSE [s EXCEPT !.hpc = "clean"]

\* cleaner = AudioCleaner(sr=sample_rate): __init__ takes sample_rate and
\* hop_length, so the call raises TypeError; the statements after it are
\* never executed by the handler
CleanerConstructed(s) ==
    [s EXCEPT !.resp = ErrorResponse("TypeError"),
              !.files = Unlinked(@, s.name), !.hpc = "done"]

\* the call of request r as it stands
Call(r) ==
    [hpc |-> hpc[r], req |-> req[r], name |-> TempName(r), resp |-> resp[r],
     files |-> tmp_files]

\* request r has made the step that leads to s
Becomes(r, s) ==
    /\ hpc' = [hpc EXCEPT ![r] = s.hpc]
    /\ resp' = [resp EXCEPT ![r] = s.resp]
    /\ tmp_files' = s.files
    /\ UNCHANGED req
    /\ UNCHANGED <<alignVars, scoreVars, feedbackVars, segmentVars, silenceVars, monoVars>>

InitAnalyze ==
    /\ hpc = [r \in RequestIds |-> "validate"]
    /\ req \in [RequestIds -> Requests]
    /\ tmp_files = {}
    /\ resp = [r \in RequestIds |-> [status |-> 0]]
    /\ text = <<>>
    /\ samples = 0
    /\ pc = "idle"
    /\ alignment = <<>>
    /\ den = 1
    /\ idx = 1
    /\ boundaries = <<>>
    /\ measured = <<>>
    /\ error = "none"
    /\ ScoreIdle
    /\ FeedbackIdle
    /\ SegmentIdle
    /\ SilenceIdle
    /\ MonoIdle

ValidateUpload ==
    \E r \in RequestIds : hpc[r] = "validate" /\ Becomes(r, Validated(Call(r)))

CreateTempFile ==
    \E r \in RequestIds : hpc[r] = "create_temp" /\ Becomes(r, TempCreated(Call(r)))

SaveUpload ==
    \E r \in RequestIds : hpc[r] = "save" /\ Becomes(r, Saved(Call(r)))

LoadAudio ==
    \E r \in RequestIds : hpc[r] = "load" /\ Becomes(r, Loaded(Call(r)))

ConstructCleaner ==
    \E r \in RequestIds : hpc[r] = "clean" /\ Becomes(r, CleanerConstructed(Call(r)))

NextAnalyze ==
    \/ ValidateUpload
    \/ CreateTempFile
    \/ SaveUpload
    \/ LoadAudio
    \/ ConstructCleaner

SpecAnalyze == InitAnalyze /\ [][NextAnalyze]_vars

\* ---------------------------------------------------------------------------
\* generate_feedback (src/main.py)
\* ---------------------------------------------------------------------------

\* the shares are tenths of a percentage point
MakhrajLimit == 50
TajwidLimit == 50
HarakatLimit == 30

MaxDelta == 1

FeedbackKeys == {"makhraj", "tajwid", "harakat"}

\* the values an entry of error_breakdown takes: 0 and the neighbourhood of
\* each limit
ShareValues ==
    {0} \cup {l + d : l \in {MakhrajLimit, TajwidLimit, HarakatLimit},
                      d \in (0 - MaxDelta)..MaxDelta}

\* an error_breakdown: any of the keys may be missing
Breakdowns == UNION {[K -> ShareValues] : K \in SUBSET FeedbackKeys}

\* error_breakdown.get(key, 0)
GetShare(b, key) == IF key \in DOMAIN b THEN b[key] ELSE 0

\* (variant: a share equal to the limit counts too)
ReachesLimit(v, limit) == v >= limit

\* the comparison of the three if statements
ExceedsLimit(v, limit) == v > limit

\* the improvement and the recommendation of a category
Improvement ==
    [makhraj |-> "Focus on proper articulation points (makhraj) for Arabic letters",
     tajwid  |-> "Work on tajwid rules application",
     harakat |-> "Pay attention to diacritic marks (harakat)"]

Recommendation ==
    [makhraj |-> "Practice tongue and lip positioning exercises",
     tajwid  |-> "Review madd and ghunnah rules",
     harakat |-> "Practice vowel sounds and timing"]

\* one if statement: both lists grow when the share exceeds the limit
FeedbackAfter(fb, b, key, limit) ==
    IF ExceedsLimit(GetShare(b, key), limit)
    THEN [fb EXCEPT !.improvements = Append(@, Improvement[key]),
                    !.recommendations = Append(@, Recommendation[key])]
    ELSE fb

InitFeedback ==
    /\ fpc = "makhraj"
    /\ shares \in Breakdowns
    /\ feedback = [overall_assessment |-> "level", strengths |-> <<>>,
                   improvements |-> <<>>, recommendations |-> <<>>]
    /\ AlignIdle
    /\ ScoreIdle
    /\ HandlerIdle
    /\ SegmentIdle
    /\ SilenceIdle
    /\ MonoIdle

CheckMakhraj ==
    /\ fpc = "makhraj"
    /\ feedback' = FeedbackAfter(feedback, shares, "makhraj", MakhrajLimit)
    /\ fpc' = "tajwid"
    /\ UNCHANGED shares
    /\ UNCHANGED <<alignVars, scoreVars, handlerVars, segmentVars, silenceVars, monoVars>>

CheckTajwid ==
    /\ fpc = "tajwid"
    /\ feedback' = FeedbackAfter(feedback, shares, "tajwid", TajwidLimit)
    /\ fpc' = "harakat"
    /\ UNCHANGED shares
    /\ UNCHANGED <<alignVars, scoreVars, handlerVars, segmentVars, silenceVars, monoVars>>

CheckHarakat ==
    /\ fpc = "harakat"
    /\ feedback' = FeedbackAfter(feedback, shares, "harakat", HarakatLimit)
    /\ fpc' = "strengths"
    /\ UNCHANGED shares
    /\ UNCHANGED <<alignVars, scoreVars, handlerVars, segmentVars, silenceVars, monoVars>>

\* if not feedback["strengths"]: the default strength; return
FeedbackReturn ==
    /\ fpc = "strengths"
    /\ feedback' = IF feedback.strengths = <<>>
                   THEN [feedback EXCEPT !.strengths =
                             <<"Good overall recitation rhythm">>]
                   ELSE feedback
    /\ fpc' = "done"
    /\ UNCHANGED shares
    /\ UNCHANGED <<alignVars, scoreVars, handlerVars, segmentVars, silenceVars, monoVars>>

NextFeedback == CheckMakhraj \/ CheckTajwid \/ CheckHarakat \/ FeedbackReturn

SpecFeedback == InitFeedback /\ [][NextFeedback]_vars

\* ---------------------------------------------------------------------------
\* TajweedAcoustics.analyze_segment and QuranInferenceEngine.analyze_recitation
\* (src/core_engine/acoustic/feature_extraction.py, src/core_engine/inference.py)
\* ---------------------------------------------------------------------------

\* times and file lengths are whole seconds
MaxTime == 2
MaxFileSecs == 2

\* self.sr of TajweedAcoustics
AcousticRate == 16000

\* pitch_stability and breathiness are hundredths, f1 is Hz
PitchLimit == 70
AinLimit == 550
BreathLimit == 10

SegmentCalls ==
    [start_time : 0..MaxTime, end_time : 0..MaxTime, file_secs : 0..MaxFileSecs,
     loaded : {-1}]

\* (variant: only a negative duration is refused)
NegativeDuration(start_time, end_time) == end_time - start_time < 0

\* duration = end_time - start_time; if duration <= 0
InvalidDuration(start_time, end_time) == end_time - start_time <= 0

\* len(y) after librosa.load(offset=start_time, duration=duration): the
\* samples the file has between start_time and end_time
LoadedSamples(s) ==
    AcousticRate * Max(Min(s.file_secs, s.end_time) - s.start_time, 0)

\* the dict of features of a non-empty segment of n samples
FeatureDicts(n) ==
    [pitch_stability   : {PitchLimit, PitchLimit + 1},
     formants          : [f1 : {AinLimit, AinLimit + 1}, f2 : {1500}],
     breathiness       : {BreathLimit - 1, BreathLimit},
     intensity_profile : {1},
     duration_ms       : {(n * 1000) \div AcousticRate}]

\* MalaysianAdapter.check_ain_precision
check_ain_precision(formants) == formants.f1 > AinLimit

\* analyze_recitation from the test of the features on: the error of the
\* segment analysis becomes the message of an error result, features become
\* the feedback of a success result
RecitationResult(f) ==
    IF "error" \in DOMAIN f
    THEN [status |-> "error", message |-> f.error]
    ELSE [status |-> "success",
          data |-> [overall_quality |->
                        IF f.pitch_stability > PitchLimit THEN "Clear" ELSE "Shaky",
                    specific_checks |->
                        [Ain_Articulation |->
                             IF check_ain_precision(f.formants)
                             THEN "Excellent" ELSE "Needs improvement",
                         Breath_Control |->
                             IF f.breathiness < BreathLimit
                             THEN "Good" ELSE "Too airy"],
                    raw_metrics |-> f]]

\* the segment analyze_recitation asks for: the first 2 seconds
RecitationWindow == [start_time |-> 0, end_time |-> 2]

\* either analyze_segment is called with some arguments, or analyze_recitation
\* is called on a file
InitSegment ==
    /\ gpc \in {"segment", "recitation"}
    /\ seg \in SegmentCalls
    /\ gpc = "recitation" => (seg.start_time = RecitationWindow.start_time
                               /\ seg.end_time = RecitationWindow.end_time)
    /\ features = <<>>
    /\ outcome = [status |-> "none"]
    /\ AlignIdle
    /\ ScoreIdle
    /\ HandlerIdle
    /\ FeedbackIdle
    /\ SilenceIdle
    /\ MonoIdle

\* analyze_segment. A range that holds no frame of the file loads as an empty
\* array, or makes the load raise (a seek past the end of the file, the
\* resampling of an empty signal), as the audio library has it.
AnalyzeSegment ==
    /\ gpc = "segment"
    /\ \/ /\ InvalidDuration(seg.start_time, seg.end_time)
          /\ features' = [error |-> "Invalid duration"]
          /\ gpc' = "analysed"
          /\ UNCHANGED seg
       \/ /\ ~InvalidDuration(seg.start_time, seg.end_time)
          /\ LoadedSamples(seg) = 0
          /\ \/ /\ features' = [error |-> "Empty segment"]
                /\ seg' = [seg EXCEPT !.loaded = 0]
                /\ gpc' = "analysed"
             \/ /\ gpc' = "raised"
                /\ UNCHANGED <<features, seg>>
       \/ /\ ~InvalidDuration(seg.start_time, seg.end_time)
          /\ LoadedSamples(seg) > 0
          /\ features' \in FeatureDicts(LoadedSamples(seg))
          /\ seg' = [seg EXCEPT !.loaded = LoadedSamples(seg)]
          /\ gpc' = "analysed"
    /\ UNCHANGED outcome
    /\ UNCHANGED <<alignVars, scoreVars, handlerVars, feedbackVars, silenceVars, monoVars>>

\* what analyze_recitation makes of the outcome of a segment analysis
ReportFeatures ==
    /\ gpc = "analysed"
    /\ outcome' = RecitationResult(features)
    /\ gpc' = "reported"
    /\ UNCHANGED <<seg, features>>
    /\ UNCHANGED <<alignVars, scoreVars, handlerVars, feedbackVars, silenceVars, monoVars>>

\* analyze_recitation as it runs: self.cleaner.load_and_clean is not a method
\* of AudioCleaner, the AttributeError is caught by the except of step 1 and
\* the call returns before any segment is analysed
AnalyzeRecitation ==
    /\ gpc = "recitation"
    /\ outcome' = [status |-> "error", message |-> "Audio load failed"]
    /\ gpc' = "returned"
    /\ UNCHANGED <<seg, features>>
    /\ UNCHANGED <<alignVars, scoreVars, handlerVars, feedbackVars, silenceVars, monoVars>>

NextSegment == AnalyzeSegment \/ ReportFeatures \/ AnalyzeRecitation

SpecSegment == InitSegment /\ [][NextSegment]_vars

\* ---------------------------------------------------------------------------
\* AudioCleaner.detect_silence_intervals (src/preprocessing/noise_robustness.py)
\* ---------------------------------------------------------------------------

MaxFrames == 5
MaxMinSilence == 4

\* frame_length and hop_length of detect_silence_intervals
FrameLength == 1024
HopLength == 512

\* int(min_silence_duration * self.sample_rate) with the defaults 0.1 and 22050
DefaultMinSilence == 2205

\* the values of min_silence_frames: a few samples, or the default
MinSilenceChoices == 1..MaxMinSilence \cup {DefaultMinSilence}

\* rms_energy < threshold for the frames of an audio; the empty sequence
\* stands for an audio shorter than one frame
FrameFlags == SeqsUpTo(BOOLEAN, MaxFrames)

\* duration_frames >= min_silence_frames * hop_length / frame_length
LongEnough(duration_frames, min_frames) ==
    duration_frames * FrameLength >= min_frames * HopLength

\* (variant: the end of an interval taken one frame later)
IntervalOfLate(first, stop) == <<first * HopLength, (stop + 1) * HopLength>>

\* (start_time, end_time) of the run of frames first .. stop - 1, as the
\* numerators over self.sample_rate
IntervalOf(first, stop) == <<first * HopLength, stop * HopLength>>

\* silence_intervals after the run first .. stop - 1 was closed
AppendIfLong(intervals, first, stop, min_frames) ==
    IF LongEnough(stop - first, min_frames)
    THEN Append(intervals, IntervalOf(first, stop))
    ELSE intervals

InitSilence ==
    /\ dpc = "frame"
    /\ silence_frames \in FrameFlags
    /\ min_silence_frames \in MinSilenceChoices
    /\ frame_i = 0
    /\ current_start = -1
    /\ silence_intervals = <<>>
    /\ AlignIdle
    /\ ScoreIdle
    /\ HandlerIdle
    /\ FeedbackIdle
    /\ SegmentIdle
    /\ MonoIdle

\* librosa.util.frame and the RMS of each frame; an audio shorter than
\* frame_length makes librosa.util.frame raise ParameterError
FrameAudio ==
    /\ dpc = "frame"
    /\ dpc' = IF Len(silence_frames) = 0 THEN "failed" ELSE "loop"
    /\ UNCHANGED <<silence_frames, min_silence_frames, frame_i, current_start,
                   silence_intervals>>
    /\ UNCHANGED <<alignVars, scoreVars, handlerVars, feedbackVars, segmentVars, monoVars>>

\* one iteration of the loop over silence_frames; frame_i is the 0-based i
SilenceStep ==
    /\ dpc = "loop"
    /\ frame_i < Len(silence_frames)
    /\ LET is_silence == silence_frames[frame_i + 1]
       IN  IF is_silence /\ current_start = -1
           THEN /\ current_start' = frame_i
                /\ UNCHANGED silence_intervals
           ELSE IF ~is_silence /\ current_start # -1
           THEN /\ silence_intervals' =
                       AppendIfLong(silence_intervals, current_start, frame_i,
                                    min_silence_frames)
                /\ current_start' = -1
           ELSE UNCHANGED <<current_start, silence_intervals>>
    /\ frame_i' = frame_i + 1
    /\ UNCHANGED <<dpc, silence_frames, min_silence_frames>>
    /\ UNCHANGED <<alignVars, scoreVars, handlerVars, feedbackVars, segmentVars, monoVars>>

\* the silence that lasts to the end; return silence_intervals
SilenceReturn ==
    /\ dpc = "loop"
    /\ frame_i = Len(silence_frames)
    /\ silence_intervals' =
           IF current_start # -1
           THEN AppendIfLong(silence_intervals, current_start,
                             Len(silence_frames), min_silence_frames)
           ELSE silence_intervals
    /\ dpc' = "done"
    /\ UNCHANGED <<silence_frames, min_silence_frames, frame_i, current_start>>
    /\ UNCHANGED <<alignVars, scoreVars, handlerVars, feedbackVars, segmentVars, monoVars>>

NextSilence == FrameAudio \/ SilenceStep \/ SilenceReturn

SpecSilence == InitSilence /\ [][NextSilence]_vars

\* ---------------------------------------------------------------------------
\* AudioNormalizer.convert_to_mono as normalize_quran_audio calls it
\* (src/preprocessing/audio_normalization.py)
\* ---------------------------------------------------------------------------

MaxMonoSamples == 3
MaxAmplitude == 1

\* a mono or a stereo file
ChannelCounts == {1, 2}

\* the audio files: every channel has the same number of samples
SoundFiles ==
    UNION {[1..c -> [1..n -> 0..MaxAmplitude]] :
               c \in ChannelCounts, n \in 1..MaxMonoSamples}

RECURSIVE SumSeq(_)
SumSeq(s) == IF Len(s) = 0 THEN 0 ELSE Head(s) + SumSeq(Tail(s))

\* librosa.load(..., mono=False): a one-channel file gives a one-dimensional
\* array, any other file an array of shape (channels, samples)
LoadChannels(f) ==
    IF Len(f) = 1
    THEN [ndim |-> 1, data |-> f[1]]
    ELSE [ndim |-> 2, data |-> f]

\* np.mean(audio, axis=1) of a two-dimensional array: one value per row, the
\* sum of the row as numerator over the length of the row
MeanOverAxis1(a) ==
    [ndim |-> 1,
     data |-> [r \in 1..Len(a.data) |-> SumSeq(a.data[r])],
     over |-> Len(a.data[1])]

convert_to_mono(a) ==
    IF a.ndim > 1
    THEN MeanOverAxis1(a)
    ELSE [ndim |-> a.ndim, data |-> a.data, over |-> 1]

InitMono ==
    /\ mpc = "load"
    /\ sound_file \in SoundFiles
    /\ audio = [ndim |-> 1, data |-> <<>>]
    /\ mono = [ndim |-> 1, data |-> <<>>, over |-> 1]
    /\ AlignIdle
    /\ ScoreIdle
    /\ HandlerIdle
    /\ FeedbackIdle
    /\ SegmentIdle
    /\ SilenceIdle

\* audio, loaded_sr = librosa.load(input_path, sr=sample_rate, mono=False)
LoadSoundFile ==
    /\ mpc = "load"
    /\ audio' = LoadChannels(sound_file)
    /\ mpc' = "convert"
    /\ UNCHANGED <<sound_file, mono>>
    /\ UNCHANGED <<alignVars, scoreVars, handlerVars, feedbackVars, segmentVars, silenceVars>>

\* step 1 of process_quran_audio: audio = self.convert_to_mono(audio)
ConvertToMono ==
    /\ mpc = "convert"
    /\ mono' = convert_to_mono(audio)
    /\ mpc' = "converted"
    /\ UNCHANGED <<sound_file, audio>>
    /\ UNCHANGED <<alignVars, scoreVars, handlerVars, feedbackVars, segmentVars, silenceVars>>

NextMono == LoadSoundFile \/ ConvertToMono

SpecMono == InitMono /\ [][NextMono]_vars

-----------------------------------------------------------------------------
(* Properties of the aligner and the rule detector, checked under SpecAlign *)

\* the reference phonemes: the letters of the text, in text order
ReferencePhonemes == SelectSeq(text, LAMBDA c : c \in ArabicLetters)

AlignReturned == pc \in {"detect", "detected", "detect_failed"}

RECURSIVE SumDurations(_)
SumDurations(als) ==
    IF als = <<>> THEN 0 ELSE Head(als).duration + SumDurations(Tail(als))

\* C1: for audio with samples and a reference with N >= 1 phonemes,
\* align_audio_to_text returns (it does not raise) exactly N entries, entry k
\* carrying the k-th reference phoneme, with start times in order and every
\* entry ending no later than the next one starts.
C1_OneEntryPerPhonemeNoOverlap ==
    (pc # "start" /\ samples > 0 /\ Len(ReferencePhonemes) >= 1) =>
        /\ AlignReturned
        /\ Len(alignment) = Len(ReferencePhonemes)
        /\ \A k \in 1..Len(alignment) :
               alignment[k].phoneme = ReferencePhonemes[k]
        /\ \A k \in 1..(Len(alignment) - 1) :
               /\ alignment[k].start_time <= alignment[k + 1].start_time
               /\ alignment[k].end_time <= alignment[k + 1].start_time

C1_Witness ==
    /\ pc = "detected"
    /\ samples = MaxSamples
    /\ Len(alignment) = 2
    /\ Len(text) = 3
    /\ text[2] = " "

\* C2: for audio with samples and a reference with N >= 1 phonemes, the
\* durations of the returned entries add up to len(y) / sr, the first entry
\* starts at 0 and the last one ends at len(y) / sr.
C2_DurationsCoverAudio ==
    (AlignReturned /\ samples > 0 /\ Len(ReferencePhonemes) >= 1) =>
        /\ alignment # <<>>
        /\ SumDurations(alignment) * SampleRate = samples * den
        /\ alignment[1].start_time = 0
        /\ alignment[Len(alignment)].end_time * SampleRate = samples * den

C2_Witness ==
    /\ AlignReturned
    /\ Len(alignment) = 3
    /\ samples = MaxSamples
    /\ samples % 3 # 0

\* C3 (as claimed): when the reference yields no phoneme, alignment ends with
\* EmptyReferenceError and never returns a list.
C3_EmptyReferenceSignalled ==
    (pc # "start" /\ samples > 0 /\ Len(ReferencePhonemes) = 0) =>
        (pc = "align_failed" /\ error = "EmptyReferenceError")

\* C4 (as claimed): when the waveform has no samples, alignment ends with
\* EmptyAudioError and never returns a list of entries.
C4_EmptyAudioSignalled ==
    (pc # "start" /\ samples = 0 /\ Len(ReferencePhonemes) >= 1) =>
        (pc = "align_failed" /\ error = "EmptyAudioError")

\* the rules in priority order, and the trigger of each for entry i as the
\* pass measured it
Priority == <<"ghunnah", "madd", "ikhfa", "idgham", "qalqalah">>

Trigger(rule, i) ==
    CASE rule = "ghunnah"  -> ~measured[i].silent
                              /\ measured[i].nasal_pct > GhunnahThresholdPct
      [] rule = "madd"     -> alignment[i].phoneme \in madd_letters
                              /\ 2 * alignment[i].duration > 3 * den
      [] rule = "ikhfa"    -> alignment[i].phoneme \in ikhfa_letters
      [] rule = "idgham"   -> i < Len(alignment)
                              /\ <<alignment[i].phoneme, alignment[i + 1].phoneme>>
                                     \in idgham_pairs
      [] rule = "qalqalah" -> alignment[i].phoneme \in qalqalah_letters

FirstTriggered(i) ==
    LET hits == {k \in 1..Len(Priority) : Trigger(Priority[k], i)}
    IN  IF hits = {} THEN "normal"
        ELSE Priority[CHOOSE k \in hits : \A h \in hits : k <= h]

BoundariesOf(i) == {j \in 1..Len(boundaries) : boundaries[j].src = i}

\* C5: every boundary comes from one visited entry, entries yield boundaries
\* in alignment order and at most one each, the rule of a boundary is the
\* first rule in priority order whose trigger holds for its entry, and a
\* visited entry has no boundary exactly when no trigger holds for it.
C5_AtMostOneFirstMatch ==
    /\ Len(boundaries) <= Len(alignment)
    /\ \A j \in 1..Len(boundaries) :
           /\ boundaries[j].src \in 1..(idx - 1)
           /\ boundaries[j].rule = FirstTriggered(boundaries[j].src)
           /\ j > 1 => boundaries[j - 1].src < boundaries[j].src
    /\ \A i \in 1..(idx - 1) :
           /\ Cardinality(BoundariesOf(i)) <= 1
           /\ (BoundariesOf(i) = {}) <=> (FirstTriggered(i) = "normal")

C5_Witness ==
    /\ pc = "detected"
    /\ Len(alignment) = 3
    /\ Len(boundaries) = 2
    /\ boundaries[1].rule = "idgham"
    /\ boundaries[2].rule = "ikhfa"

\* C6 (as claimed): an entry whose segment meets the ghunnah condition and
\* whose phoneme is a qalqalah letter gets a GHUNNAH boundary with confidence
\* 0.9 carrying the measured ratio, the pass does not fail on it, and it gets
\* no QALQALAH boundary.
C6_GhunnahBeforeQalqalah ==
    \A i \in 1..Len(measured) :
        (Trigger("ghunnah", i) /\ alignment[i].phoneme \in qalqalah_letters) =>
            /\ pc # "detect_failed"
            /\ \E j \in BoundariesOf(i) :
                   /\ boundaries[j].rule = "ghunnah"
                   /\ boundaries[j].confidence = 90
                   /\ boundaries[j].param = "nasal_energy"
                   /\ boundaries[j].value = measured[i].nasal_pct
            /\ \A j \in BoundariesOf(i) : boundaries[j].rule # "qalqalah"

-----------------------------------------------------------------------------
(* Properties of the scoring block, checked under SpecScore *)

\* the word errors of the hypothesis, from the inputs
WordErrors == edits.subs + edits.dels + edits.ins

\* C7: a lexical error rate of 0 gives qwer = 0 and level "Advanced"; a
\* lexical error rate of 1 gives qwer = 100 and level "Beginner".
C7_ScoreAtTheExtremes ==
    spc = "done" =>
        /\ WordErrors = 0 =>
               (result.qwer = 0 /\ result.level = "Advanced")
        /\ WordErrors = ref_words =>
               (result.qwer = 100 * 100 /\ result.level = "Beginner")

C7_Witness ==
    /\ spc = "done"
    /\ ref_words = FallbackRefWords
    /\ edits.subs = ref_words
    /\ WordErrors = ref_words
    /\ result.level = "Beginner"

\* C8 (as claimed): the four breakdown values are exactly 30, 40, 20 and 10
\* percent of the returned qwer, and their sum is the returned qwer within
\* half a hundredth.  (result.qwer is in hundredths, a breakdown value is a
\* numerator over 10 * ref_words.)
C8_BreakdownOfReturnedQwer ==
    spc = "done" =>
        LET b == result.error_breakdown
            sum == b.makhraj + b.tajwid + b.harakat + b.rhythm
        IN  /\ b.makhraj * 100 = 3 * result.qwer * ref_words
            /\ b.tajwid * 100 = 4 * result.qwer * ref_words
            /\ b.harakat * 100 = 2 * result.qwer * ref_words
            /\ b.rhythm * 100 = 1 * result.qwer * ref_words
            /\ 2 * (sum * 10 - result.qwer * ref_words) <= ref_words
            /\ 2 * (result.qwer * ref_words - sum * 10) <= ref_words

\* C9 (as claimed): the returned level is the one the thresholds give for the
\* returned qwer.
C9_LevelMatchesReturnedQwer ==
    spc = "done" =>
        /\ result.level = "Advanced" <=> result.qwer < 10 * 100
        /\ result.level = "Intermediate" <=>
               (10 * 100 <= result.qwer /\ result.qwer < 25 * 100)
        /\ result.level = "Beginner" <=> result.qwer >= 25 * 100

\* C10 (as claimed): the returned qwer lies in 0..100 for every pair of
\* reference and hypothesis.
C10_QwerWithinZeroToHundred ==
    spc = "done" => (0 <= result.qwer /\ result.qwer <= 100 * 100)

\* ---------------------------------------------------------------------------
\* Properties of the request handler (SpecAnalyze)
\* ---------------------------------------------------------------------------

\* an upload with an audio content type, a file name and bytes that can be
\* read and hold at least one sample of audio
ValidShaped(r) ==
    /\ ~NotAudio(r.content_type)
    /\ r.filename # "none"
    /\ ~r.read_fails
    /\ r.payload = "audio"

\* C11: when analyze_audio has finished a valid-shaped request, the response
\* is the successful one (HTTP 200 carrying success and the analysis), never
\* an error response.
C11_ValidRequestSucceeds ==
    \A r \in RequestIds :
        (hpc[r] = "done" /\ ValidShaped(req[r])) => resp[r].status = 200

\* ---------------------------------------------------------------------------
\* Further properties of the scoring block (SpecScore)
\* ---------------------------------------------------------------------------

\* the phoneme units of the reference: the letters of its words
ReferenceUnits == ref_words * word_letters

\* C12: in every result, total_phonemes is the number of phoneme units of the
\* reference, whatever the hypothesis text is.
C12_TotalPhonemesOfReference ==
    spc = "done" => result.total_phonemes = ReferenceUnits

Categories == {"makhraj", "tajwid", "harakat", "rhythm"}

\* the thresholds that tell the categories of a breakdown apart: one below
\* every share, and each share itself
ThresholdCandidates(b) == {-1} \cup {b[c] : c \in Categories}

\* list names exactly the categories whose share exceeds t, each once, in
\* descending order of share
ListsSharesAbove(list, b, t) ==
    /\ {list[i] : i \in 1..Len(list)} = {c \in Categories : b[c] > t}
    /\ \A i, j \in 1..Len(list) : i < j => (list[i] # list[j] /\ b[list[i]] >= b[list[j]])

\* C13: in every result, dominant_error_types lists exactly the categories
\* whose share exceeds a reporting threshold, in descending order of share; a
\* result whose shares are all 0 lists none that does not exceed it.
C13_DominantTypesAboveThreshold ==
    spc = "done" =>
        \E t \in ThresholdCandidates(result.error_breakdown) :
            ListsSharesAbove(result.dominant_error_types, result.error_breakdown, t)

\* ---------------------------------------------------------------------------
\* Further properties of alignment and rule detection (SpecAlign)
\* ---------------------------------------------------------------------------

\* the confidence align_audio_to_text gives unit i of the same reference over
\* audio of the same length whose window i holds signal
ConfidenceWithSignal(i) ==
    PhonemeAlignment(alignment[i].phoneme, i, samples).confidence

\* C14: a unit whose time window holds silence has a strictly lower
\* confidence than the same unit has when its window holds signal.
C14_SilenceLowersConfidence ==
    \A i \in 1..Len(measured) :
        measured[i].silent => alignment[i].confidence < ConfidenceWithSignal(i)

\* C15: an IKHFA boundary comes only from an entry that is not the first of
\* the alignment and whose preceding entry is a noon.
C15_IkhfaNeedsPrecedingNoon ==
    \A j \in 1..Len(boundaries) :
        boundaries[j].rule = "ikhfa" =>
            /\ boundaries[j].src > 1
            /\ alignment[boundaries[j].src - 1].phoneme = "noon"

\* the nominal per-phoneme duration, audio duration / reference phoneme
\* count, as the numerator over den
NominalDuration == samples

\* C16: an entry that was evaluated and on which ghunnah did not fire has a
\* MADD boundary exactly when its phoneme is a long-vowel letter and its
\* duration exceeds 1.5 times the nominal per-phoneme duration.
C16_MaddRelativeToNominal ==
    \A i \in 1..Len(alignment) :
        (i < idx /\ ~Trigger("ghunnah", i)) =>
            ((\E j \in BoundariesOf(i) : boundaries[j].rule = "madd")
                <=> (alignment[i].phoneme \in madd_letters
                     /\ 2 * alignment[i].duration > 3 * NominalDuration))

\* C17: the detection pass does not fail on a unit whose sample slice is
\* empty or holds no energy.
C17_UnanalysableUnitDoesNotFail ==
    pc = "detect_failed" =>
        /\ SegmentLen(alignment[idx], den, samples) > 0
        /\ ~measured[Len(measured)].silent

\* C20: no step of detect_tajwid_boundaries changes the alignment it was
\* given: length, order and every field of every entry stay as they were,
\* whichever rule fired.
C20_DetectionLeavesAlignment ==
    [][pc = "detect" => alignment' = alignment]_vars

\* detection finished with two boundaries of different rules over an
\* alignment that is still the one align_audio_to_text returned
C20_Witness ==
    /\ pc = "detected"
    /\ Len(boundaries) = 2
    /\ boundaries[1].rule # boundaries[2].rule
    /\ alignment = Alignments(load_uthmani_text(text), samples)

\* ---------------------------------------------------------------------------
\* Properties of generate_feedback (SpecFeedback)
\* ---------------------------------------------------------------------------

\* how often item occurs in list
Occurrences(list, item) == Cardinality({i \in 1..Len(list) : list[i] = item})

\* C18: the feedback returned has the articulation improvement exactly when
\* the makhraj share is above 5, the rule-review improvement exactly when the
\* tajwid share is above 5 and the vowel improvement exactly when the harakat
\* share is above 3, a missing share counting as 0 and a share at the limit
\* adding nothing; improvements and recommendations have the same length and
\* the recommendation at each position is the one of the improvement there.
C18_FeedbackThresholds ==
    fpc = "done" =>
        /\ Occurrences(feedback.improvements, Improvement.makhraj)
               = IF "makhraj" \in DOMAIN shares /\ shares.makhraj > MakhrajLimit
                 THEN 1 ELSE 0
        /\ Occurrences(feedback.improvements, Improvement.tajwid)
               = IF "tajwid" \in DOMAIN shares /\ shares.tajwid > TajwidLimit
                 THEN 1 ELSE 0
        /\ Occurrences(feedback.improvements, Improvement.harakat)
               = IF "harakat" \in DOMAIN shares /\ shares.harakat > HarakatLimit
                 THEN 1 ELSE 0
        /\ Len(feedback.recommendations) = Len(feedback.improvements)
        /\ \A i \in 1..Len(feedback.improvements) :
              \E key \in FeedbackKeys :
                  /\ feedback.improvements[i] = Improvement[key]
                  /\ feedback.recommendations[i] = Recommendation[key]

\* a makhraj share at the limit, a tajwid share just above it and no harakat
\* share: the only improvement is the tajwid one
C18_Witness ==
    /\ fpc = "done"
    /\ DOMAIN shares = {"makhraj", "tajwid"}
    /\ shares.makhraj = MakhrajLimit
    /\ shares.tajwid = TajwidLimit + 1
    /\ feedback.improvements = <<Improvement.tajwid>>
    /\ feedback.recommendations = <<Recommendation.tajwid>>

\* ---------------------------------------------------------------------------
\* Properties of the segment analysis (SpecSegment)
\* ---------------------------------------------------------------------------

FeatureKeys ==
    {"pitch_stability", "formants", "breathiness", "intensity_profile", "duration_ms"}

\* C19: a call of analyze_segment with end_time <= start_time returns, and a
\* call whose load yields zero samples returns, a dict that holds an error
\* and none of the features; what analyze_recitation makes of such a dict is
\* a result of status "error" without feedback data, and analyze_recitation
\* itself never returns another status for it.
C19_SegmentErrorOutcome ==
    /\ (gpc # "segment" /\ seg.end_time <= seg.start_time)
           => (gpc \in {"analysed", "reported"}
               /\ features = [error |-> "Invalid duration"])
    /\ (gpc \in {"analysed", "reported"} /\ seg.loaded = 0)
           => features = [error |-> "Empty segment"]
    /\ (gpc \in {"analysed", "reported"} /\ "error" \in DOMAIN features)
           => DOMAIN features \cap FeatureKeys = {}
    /\ (gpc = "reported" /\ "error" \in DOMAIN features)
           => (outcome.status = "error" /\ "data" \notin DOMAIN outcome)
    /\ gpc = "returned" => outcome.status = "error"

\* a segment that starts where it ends was refused and reported as an error
C19_Witness ==
    /\ gpc = "reported"
    /\ seg.end_time = seg.start_time
    /\ features = [error |-> "Invalid duration"]
    /\ outcome = [status |-> "error", message |-> "Invalid duration"]

\* ---------------------------------------------------------------------------
\* Properties of the boundaries (SpecAlign)
\* ---------------------------------------------------------------------------

\* C22: every boundary starts and ends where the alignment entry it was made
\* from starts and ends.
C22_BoundarySpansItsEntry ==
    \A j \in 1..Len(boundaries) :
        /\ boundaries[j].src \in 1..Len(alignment)
        /\ boundaries[j].start_time = alignment[boundaries[j].src].start_time
        /\ boundaries[j].end_time = alignment[boundaries[j].src].end_time

\* detection finished with a boundary made from an entry that has a
\* predecessor and a successor
C22_Witness ==
    /\ pc = "detected"
    /\ Len(alignment) = 3
    /\ \E j \in 1..Len(boundaries) : boundaries[j].src = 2

\* C23: an IDGHAM boundary comes from an entry that has a successor and whose
\* phoneme forms one of the fixed pairs with the successor's phoneme, never
\* from the last entry; and the idgham test of an entry gives the same answer
\* whatever the phonemes of the entries other than it and its successor are.
C23_IdghamLooksAtNextOnly ==
    /\ \A j \in 1..Len(boundaries) :
          boundaries[j].rule = "idgham" =>
              /\ boundaries[j].src < Len(alignment)
              /\ <<alignment[boundaries[j].src].phoneme,
                   alignment[boundaries[j].src + 1].phoneme>>
                     \in {<<"noon", "ya">>, <<"noon", "waw">>, <<"noon", "mim">>,
                          <<"lam", "lam">>, <<"ra", "ra">>}
    /\ \A i \in 1..Len(alignment) :
          \A k \in 1..Len(alignment) \ {i, i + 1} :
              \A c \in ArabicLetters :
                  detect_idgham([alignment EXCEPT ![k].phoneme = c], i)
                      = detect_idgham(alignment, i)

\* detection finished over noon, ya, ya: the noon gave IDGHAM, the ya after
\* it and the last ya gave none
C23_Witness ==
    /\ pc = "detected"
    /\ text = <<"noon", "ya", "ya">>
    /\ Len(boundaries) = 1
    /\ boundaries[1].rule = "idgham"
    /\ boundaries[1].src = 1

C26_NotAudioRejectedWith400 ==
    \A r \in RequestIds :
        (hpc[r] = "done" /\ NotAudio(req[r].content_type)) =>
            (resp[r].status = 400 /\ TempName(r) \notin Names(tmp_files))

\* C27: when analyze_audio has answered, with success or with an error, no
\* temporary file of the call is left.
C27_TempFilesDeleted ==
    \A r \in RequestIds :
        hpc[r] = "done" => TempName(r) \notin Names(tmp_files)

\* ---------------------------------------------------------------------------
\* Further properties of the inference engine (SpecSegment)
\* ---------------------------------------------------------------------------

\* C29: analyze_recitation on a file that loads and whose first two seconds
\* hold samples returns status "success" with the feedback data.
C29_RecitationSucceedsOnAudio ==
    (gpc = "returned" /\ seg.file_secs > 0) =>
        (outcome.status = "success" /\ "data" \in DOMAIN outcome)

\* ---------------------------------------------------------------------------
\* Properties of detect_silence_intervals (SpecSilence)
\* ---------------------------------------------------------------------------

\* frame f (0-based) is below the threshold
SilentFrame(f) == silence_frames[f + 1]

\* the maximal runs of silent frames, each as <<first frame, frame after the last>>
MaximalRuns ==
    {run \in (0..Len(silence_frames)) \X (0..Len(silence_frames)) :
        /\ run[1] < run[2]
        /\ \A f \in run[1]..(run[2] - 1) : SilentFrame(f)
        /\ run[1] = 0 \/ ~SilentFrame(run[1] - 1)
        /\ run[2] = Len(silence_frames) \/ ~SilentFrame(run[2])}

Reported == {silence_intervals[j] : j \in 1..Len(silence_intervals)}

\* C24: the intervals returned are exactly the maximal runs of silent frames
\* that last min_silence_duration seconds or longer (a run of k frames lasts
\* k * hop_length / sample_rate seconds, min_silence_duration * sample_rate is
\* min_silence_frames), the run that lasts to the end of the audio included.
C24_RunsOfMinDurationReported ==
    dpc = "done" =>
        Reported = {<<run[1] * HopLength, run[2] * HopLength>> :
                        run \in {r \in MaximalRuns :
                                    (r[2] - r[1]) * HopLength >= min_silence_frames}}

\* C25: the intervals are in ascending order, two consecutive ones have a
\* frame that is not silent at the end of the first and start later than it,
\* each has 0 <= start < end, ends no later than the last frame does, and
\* holds only silent frames.
C25_IntervalsWellFormed ==
    /\ \A j \in 1..Len(silence_intervals) :
          /\ 0 <= silence_intervals[j][1]
          /\ silence_intervals[j][1] < silence_intervals[j][2]
          /\ silence_intervals[j][2] <= Len(silence_frames) * HopLength
          /\ \A f \in 0..(Len(silence_frames) - 1) :
                (silence_intervals[j][1] <= f * HopLength
                 /\ f * HopLength < silence_intervals[j][2]) => SilentFrame(f)
    /\ \A j \in 1..(Len(silence_intervals) - 1) :
          /\ silence_intervals[j][2] < silence_intervals[j + 1][1]
          /\ \E f \in 0..(Len(silence_frames) - 1) :
                /\ silence_intervals[j][2] <= f * HopLength
                /\ f * HopLength < silence_intervals[j + 1][1]
                /\ ~SilentFrame(f)

\* two intervals were returned, the second lasting to the end of the audio
C25_Witness ==
    /\ dpc = "done"
    /\ Len(silence_intervals) = 2
    /\ silence_intervals[2][2] = Len(silence_frames) * HopLength

\* ---------------------------------------------------------------------------
\* Properties of convert_to_mono (SpecMono)
\* ---------------------------------------------------------------------------

\* C30: what convert_to_mono returns for a loaded file is one-dimensional, has
\* as many samples as each channel of the file, and its sample i is the
\* average of the channels' samples i; the array of a one-channel file is
\* returned as it is.
C30_MonoIsChannelAverage ==
    mpc = "converted" =>
        /\ mono.ndim = 1
        /\ Len(mono.data) = Len(sound_file[1])
        /\ \A i \in 1..Len(mono.data) :
              mono.data[i] * Len(sound_file)
                  = SumSeq([c \in 1..Len(sound_file) |-> sound_file[c][i]]) * mono.over
        /\ Len(sound_file) = 1 => (mono.data = audio.data /\ mono.over = 1)

\* ---------------------------------------------------------------------------
\* Independence of concurrent requests (SpecAnalyze)
\* ---------------------------------------------------------------------------

\* the next stretch of a call
HandlerStep(s) ==
    CASE s.hpc = "validate"    -> Validated(s)
      [] s.hpc = "create_temp" -> TempCreated(s)
      [] s.hpc = "save"        -> Saved(s)
      [] s.hpc = "load"        -> Loaded(s)
      [] s.hpc = "clean"       -> CleanerConstructed(s)
      [] OTHER                 -> s

RECURSIVE RunAlone(_)
RunAlone(s) == IF s.hpc = "done" THEN s ELSE RunAlone(HandlerStep(s))

\* the response to upload q when its call is the only one and the disk is empty
AloneResponse(q) ==
    RunAlone([hpc |-> "validate", req |-> q, name |-> <<"alone", "upload">>,
              resp |-> [status |-> 0], files |-> {}]).resp

\* C21: the response to a finished request is the response the same upload
\* gets when its call runs alone, so two requests with the same upload get the
\* same response; and every temporary file on disk is the upload copy of one
\* request in flight and holds nothing but that request's upload.
C21_RequestsIndependent ==
    /\ \A r \in RequestIds :
          hpc[r] = "done" => resp[r] = AloneResponse(req[r])
    /\ \A r1, r2 \in RequestIds :
          (hpc[r1] = "done" /\ hpc[r2] = "done" /\ req[r1] = req[r2])
              => resp[r1] = resp[r2]
    /\ \A f \in tmp_files :
          \E r \in RequestIds :
              /\ f.name = TempName(r)
              /\ hpc[r] # "validate"
              /\ f.holds \in {"empty", req[r].payload}

\* two requests with the same upload: one has been answered while the upload
\* copy of the other was on disk, waiting to be loaded
C21_Witness ==
    /\ req["r1"] = req["r2"]
    /\ hpc["r1"] = "done"
    /\ resp["r1"] = ErrorResponse("TypeError")
    /\ hpc["r2"] = "load"
    /\ Names(tmp_files) = {TempName("r2")}

====
